---- MODULE Spec2Model ----
(***************************************************************************)
(* cSecBridge job lifecycle: the API service's create_request /            *)
(* create_new_request (Intake) and the AWS worker's run_worker /           *)
(* process_job (Processor), over one logical Store (PostgreSQL), one Redis *)
(* list used as the provider queue and the Redis status cache.             *)
(*                                                                         *)
(* Modelling notes                                                         *)
(*  - A Redis list is a sequence whose index 1 is the head (left end).     *)
(*    LPUSH puts an element at index 1, BRPOP takes the last element.      *)
(*  - Rows written inside an open PostgreSQL transaction are invisible to  *)
(*    every other connection until COMMIT; the Store variables hold only   *)
(*    committed rows, an open Intake transaction lives in txn/ipc.         *)
(*  - worker-service-aws/src/app/backend.py calls _get_error_log_extra in  *)
(*    its "except OperationalError" / "except ConnectionError" handlers of *)
(*    update_job_status_on_db, validate_job_status_on_db, _get_db_         *)
(*    connection and get_job_from_redis_queue.  The module defines and     *)
(*    imports only get_error_log_extra (no leading underscore), so the     *)
(*    handler raises NameError before it reaches "raise DBError"; the      *)
(*    finally clause still returns the connection.  The exception such a   *)
(*    fault surfaces as is therefore BackendFaultRaises = "NameError".     *)
(*  - The payload handed to process_job is taken to be the decoded JSON    *)
(*    object of the list element; an element is identified by the          *)
(*    correlation_id it carries (NoCorr: a JSON object without one,        *)
(*    NotJson: text that json.loads rejects).  BRPOP is taken to return    *)
(*    the bytes that worker.py 200 calls .decode('utf-8') on; clients.py   *)
(*    57 creates the client with decode_responses=True, under which that   *)
(*    call would raise AttributeError for every element.                   *)
(*  - There are two providers: "aws", whose worker is the Processor, and   *)
(*    one other, whose list (otherQueue) nothing here consumes.  Init      *)
(*    gives every request the target "aws"; InitProviders lets each        *)
(*    request have either target.                                          *)
(*  - clock is one wall clock read by datetime.now() in the API service    *)
(*    and in every worker (no skew between hosts); it advances by the      *)
(*    Tick steps of SpecClock and stands still in the other                *)
(*    specifications.                                                      *)
(*  - get_request_status / get_request_by_id (status lookup) is one step:   *)
(*    cache GET, SELECT, cache SET and the building of the response.  The  *)
(*    row's keys are taken in the spelling the code indexes them with.     *)
(*  - Init is the moment before the workers' startup health check.         *)
(*  - The API service's pool is psycopg2's ThreadedConnectionPool: getconn *)
(*    on a pool with no free connection raises PoolError at once.  A       *)
(*    request keeps its connection from _get_db_connection until Flask's   *)
(*    teardown, that is until its response is returned.                    *)
(*  - checkedOut counts the connections a worker took from its own pool    *)
(*    and has not put back; that pool (DB_POOL_MAX_CONN) is taken to be    *)
(*    large enough for the worker's getconn calls never to find it empty.  *)
(*  - Terminate is the termination of a worker process from outside        *)
(*    (SIGKILL, node loss); it is part of SpecCrash only.                  *)
(***************************************************************************)
EXTENDS Naturals, Sequences, FiniteSets, TLC

\* ----------------------------------------------------------------- bounds
MaxJobs == 2        \* CreateJob calls (one fresh uuid4 correlation_id each)
NumProcs == 2       \* worker instances competing on the queue
MaxEvents == 2      \* perturbations in a run: connectivity faults, transient or
                    \* unexpected action outcomes, duplicate and malformed deliveries
MaxConn == 1        \* POSTGRES_MAX_CONN: connections of the API service's pool
MaxClock == 2       \* ticks of the wall clock that datetime.now() reads

Corr == 1 .. MaxJobs
Procs == 1 .. NumProcs
NoCorr == 0
NotJson == MaxJobs + 1
NoRef == "none"

Terminal == {"SUCCESS", "FAILED"}

VARIABLES
    status,     \* csb_requests.status per correlation_id, "NONE" = no committed row
    audit,      \* csb_requests_audit: committed audit statuses per correlation_id
    refs,       \* csb_requests_ref: committed reference ids per correlation_id
    queue,      \* the provider's Redis list, index 1 = head (LPUSH side)
    cache,      \* cache:status:<correlation_id>, "none" = no entry
    ipc,        \* position of each create_request call
    txn,        \* state of the call's Store transaction
    resp,       \* HTTP status returned by the call, 0 = not returned yet
    failedAt,   \* the step at which the call failed, "none" otherwise
    accepted,   \* history: the call's LPUSH was accepted by Redis
    arrival,    \* history: correlation_ids in the order Intake pushed them onto queue
    ppc,        \* position of each worker in run_worker / process_job
    held,       \* correlation_id of the payload the worker is processing
    attOutcome, \* history: what process_iam_action did in the current attempt
    attPending, \* history: PENDING writes committed by the current attempt
    attPush,    \* history: re-pushes accepted by Redis in the current attempt
    attFailed,  \* history: the Store/Redis call that failed in the attempt
    attRaised,  \* history: the exception that call raised to its caller
    firstPops,  \* history: correlation_ids in the order of their first delivery
    checkedOut, \* connections of the worker's pool that the worker has not returned
    lookup,     \* the latest get_request_status call and what it answered
    target,     \* target_cloud of each create_request call's payload
    otherQueue, \* the Redis list of the provider no worker here consumes
    clock,      \* the wall clock, in ticks
    recv,       \* received_at of each create_request call
    lastUpd,    \* last update time stamp of the committed csb_requests row
    since,      \* the clock when the worker reached its current position
    succeeded,  \* history: correlation_ids process_iam_action returned a result for
    events      \* perturbations so far

svars == <<status, audit, refs, lastUpd>>
nvars == <<target, otherQueue, clock, recv, since, succeeded>>
ivars == <<ipc, txn, resp, failedAt, accepted, arrival>>
pvars == <<ppc, held, attOutcome, attPending, attPush, attFailed, attRaised,
          firstPops, checkedOut>>
vars == <<status, audit, refs, queue, cache, ipc, txn, resp, failedAt, accepted,
          arrival, ppc, held, attOutcome, attPending, attPush, attFailed,
          attRaised, firstPops, checkedOut, lookup, target, otherQueue, clock,
          recv, lastUpd, since, succeeded, events>>

CanFault == events < MaxEvents

\* target_cloud values of the request schema: the provider whose worker is
\* modelled, and one other.
Providers == {"aws", "azure"}

\* config.REDIS_QUEUE_AWS, the list the AWS worker pops from and re-pushes
\* to: taken to be the list that Intake names for target_cloud "aws".
REDIS_QUEUE_AWS == <<"queue", "aws">>

\* -------------------------------------------------------------- Redis list
\* Mutant: the element is added at the end BRPOP takes from.
LPush_at_tail(q, m) == q \o <<m>>

LPush(q, m) == <<m>> \o q
RPopped(q) == q[Len(q)]
RPopRest(q) == SubSeq(q, 1, Len(q) - 1)

\* ------------------------------------------------------------------ Intake
\* Mutant: the handler does not catch the backend's error classes, so there
\* is neither rollback nor APIServerError and the catch-all answers 500.
create_request_backend_error_uncaught(c, step) ==
    /\ txn' = [txn EXCEPT ![c] = "aborted"]
    /\ resp' = [resp EXCEPT ![c] = 500]
    /\ failedAt' = [failedAt EXCEPT ![c] = step]
    /\ ipc' = [ipc EXCEPT ![c] = "done"]

\* routes.py 186-195, errors.py 49-57: except (DBError, RedisError): rollback,
\* raise APIServerError, which _handle_api_server_exception turns into 503.
create_request_on_backend_error(c, step) ==
    /\ txn' = [txn EXCEPT ![c] = "rolledback"]
    /\ resp' = [resp EXCEPT ![c] = 503]
    /\ failedAt' = [failedAt EXCEPT ![c] = step]
    /\ ipc' = [ipc EXCEPT ![c] = "done"]

\* routes.py 48-52 with source/app/__init__.py 69-78: a request keeps the
\* connection it took from db_pool until the teardown that follows its
\* response.
InFlight == {c \in Corr : ipc[c] \in {"job", "audit", "pushed", "cached"}}

\* extensions.py 66-68: a psycopg2 ThreadedConnectionPool of at most
\* POSTGRES_MAX_CONN connections; its getconn() does not wait for a free
\* connection, it raises PoolError("connection pool exhausted").
PoolExhausted == Cardinality(InFlight) >= MaxConn

\* routes.py 173-195, errors.py 71-79: PoolError is none of (DBError,
\* RedisError); the catch-all handler answers 500.
create_request_pool_error(c) ==
    /\ resp' = [resp EXCEPT ![c] = 500]
    /\ failedAt' = [failedAt EXCEPT ![c] = "pool"]
    /\ ipc' = [ipc EXCEPT ![c] = "done"]
    /\ UNCHANGED txn

\* routes.py 176: _get_db_connection(), then backend.py 97-109: INSERT INTO
\* REQUESTS, inside the request's transaction.
InsertRequest(c) ==
    /\ ipc[c] = "start"
    /\ recv' = [recv EXCEPT ![c] = clock]
    /\ \/ /\ ~PoolExhausted
          /\ ipc' = [ipc EXCEPT ![c] = "job"]
          /\ txn' = [txn EXCEPT ![c] = "open"]
          /\ UNCHANGED <<resp, failedAt, events>>
       \/ /\ ~PoolExhausted
          /\ CanFault
          /\ events' = events + 1
          /\ create_request_on_backend_error(c, "job")
       \/ /\ PoolExhausted
          /\ create_request_pool_error(c)
          /\ UNCHANGED events
    /\ UNCHANGED <<svars, queue, cache, accepted, arrival, pvars, lookup, target, otherQueue,
                   clock, since, succeeded>>

\* backend.py 112-119: INSERT INTO REQUESTS_AUDIT (status PENDING, error None).
InsertAudit(c) ==
    /\ ipc[c] = "job"
    /\ \/ /\ ipc' = [ipc EXCEPT ![c] = "audit"]
          /\ UNCHANGED <<txn, resp, failedAt, events>>
       \/ /\ CanFault
          /\ events' = events + 1
          /\ create_request_on_backend_error(c, "audit")
    /\ UNCHANGED <<svars, queue, cache, accepted, arrival, pvars, lookup, nvars>>

\* Mutant: the queue error is logged and swallowed, as the cache error is.
create_new_request_push_swallowed(c) ==
    /\ ipc' = [ipc EXCEPT ![c] = "pushed"]
    /\ UNCHANGED <<txn, resp, failedAt, queue, otherQueue, accepted, arrival>>

\* backend.py 125-130: LPUSH queue:<target_cloud>; a Redis error is raised
\* as RedisError.
create_new_request_push_failed(c) ==
    /\ create_request_on_backend_error(c, "push")
    /\ UNCHANGED <<queue, otherQueue, accepted, arrival>>

\* Mutant: every payload is pushed onto the list the AWS worker consumes.
queue_name_of_aws(target_cloud) == <<"queue", "aws">>

\* backend.py 126: queue_name = f'queue:{backend_data["target_cloud"]}'
queue_name(target_cloud) == <<"queue", target_cloud>>

QueuePush(c) ==
    /\ ipc[c] = "audit"
    /\ \/ /\ IF queue_name(target[c]) = REDIS_QUEUE_AWS
             THEN /\ queue' = LPush(queue, c)
                  /\ arrival' = Append(arrival, c)
                  /\ UNCHANGED otherQueue
             ELSE /\ otherQueue' = LPush(otherQueue, c)
                  /\ UNCHANGED <<queue, arrival>>
          /\ accepted' = [accepted EXCEPT ![c] = TRUE]
          /\ ipc' = [ipc EXCEPT ![c] = "pushed"]
          /\ UNCHANGED <<txn, resp, failedAt, events>>
       \/ /\ CanFault
          /\ events' = events + 1
          /\ create_new_request_push_failed(c)
    /\ UNCHANGED <<svars, cache, pvars, lookup, target, clock, recv, since, succeeded>>

\* Mutant: a failed cache SET is raised like a failed LPUSH.
CacheSet_error_raised(c) ==
    /\ ipc[c] = "pushed"
    /\ \/ /\ cache' = [cache EXCEPT ![c] = "PENDING"]
          /\ ipc' = [ipc EXCEPT ![c] = "cached"]
          /\ UNCHANGED <<txn, resp, failedAt, events>>
       \/ /\ CanFault
          /\ events' = events + 1
          /\ create_request_on_backend_error(c, "cache")
          /\ UNCHANGED cache
    /\ UNCHANGED <<svars, queue, accepted, arrival, pvars, lookup, nvars>>

\* backend.py 66-78, 132-137: SET cache:status:<id> {correlation_id, status}
\* with the TTL; a Redis error is logged and swallowed.
CacheSet(c) ==
    /\ ipc[c] = "pushed"
    /\ \/ /\ cache' = [cache EXCEPT ![c] = "PENDING"]
          /\ UNCHANGED events
       \/ /\ CanFault
          /\ events' = events + 1
          /\ UNCHANGED cache
    /\ ipc' = [ipc EXCEPT ![c] = "cached"]
    /\ UNCHANGED <<svars, queue, txn, resp, failedAt, accepted, arrival, pvars, lookup, nvars>>

\* routes.py 183: db_conn.commit().  A psycopg2 error here is none of
\* (DBError, RedisError): it leaves create_request uncaught, the catch-all
\* handler answers 500 and the teardown's putconn discards the transaction.
Commit(c) ==
    /\ ipc[c] = "cached"
    /\ \/ /\ status' = [status EXCEPT ![c] = "PENDING"]
          /\ audit' = [audit EXCEPT ![c] = Append(@, "PENDING")]
          /\ lastUpd' = [lastUpd EXCEPT ![c] = recv[c]]
          /\ txn' = [txn EXCEPT ![c] = "committed"]
          /\ resp' = [resp EXCEPT ![c] = 202]
          /\ UNCHANGED <<failedAt, events>>
       \/ /\ CanFault
          /\ events' = events + 1
          /\ txn' = [txn EXCEPT ![c] = "aborted"]
          /\ resp' = [resp EXCEPT ![c] = 500]
          /\ failedAt' = [failedAt EXCEPT ![c] = "commit"]
          /\ UNCHANGED <<status, audit, lastUpd>>
    /\ ipc' = [ipc EXCEPT ![c] = "done"]
    /\ UNCHANGED <<refs, queue, cache, accepted, arrival, pvars, lookup, nvars>>

create_request(c) ==
    \/ InsertRequest(c)
    \/ InsertAudit(c)
    \/ QueuePush(c)
    \/ CacheSet(c)
    \/ Commit(c)

\* ------------------------------------------------------------------- Store
\* worker backend.py 165-172 (and 226-231, 86-93, 257-262): the handler of
\* OperationalError (of ConnectionError in get_job_from_redis_queue) evaluates
\* the undefined name _get_error_log_extra before its "raise DBError"
\* ("raise RedisError"), so the caller sees NameError.
BackendFaultRaises == "NameError"

\* Mutant: only terminal statuses are treated as duplicates.
validate_job_status_rejects_terminal_only(c) == status[c] \in {"PENDING", "IN_PROGRESS"}

\* Mutant: a correlation_id without a row is accepted.
validate_job_status_accepts_unknown(c) == status[c] \in {"PENDING", "NONE"}

\* worker backend.py 200-224: SELECT status; False when there is no row or the
\* status is not PENDING.
validate_job_status_on_db(c) == status[c] = "PENDING"

\* worker backend.py 125-159: UPDATE csb_requests (no row, no change),
\* INSERT csb_requests_audit, INSERT csb_requests_ref on SUCCESS with a
\* reference, one COMMIT.
UpdatedStatus(c, s) == [status EXCEPT ![c] = IF @ = "NONE" THEN @ ELSE s]
UpdatedAudit(c, s) == [audit EXCEPT ![c] = Append(@, s)]
\* Mutant: the reference insert is left out.
UpdatedRefs_without_insert(c, s, ref) == refs

UpdatedRefs(c, s, ref) ==
    IF s = "SUCCESS" /\ ref # NoRef THEN [refs EXCEPT ![c] = Append(@, ref)] ELSE refs

\* worker backend.py 132-135: last_upd_time_stamp is set to the
\* datetime.now(timezone.utc) the worker evaluated before the UPDATE ran.
UpdatedLastUpd(c, ts) == [lastUpd EXCEPT ![c] = IF status[c] = "NONE" THEN @ ELSE ts]

update_job_status_on_db(c, s, ref, ts) ==
    /\ status' = UpdatedStatus(c, s)
    /\ audit' = UpdatedAudit(c, s)
    /\ refs' = UpdatedRefs(c, s, ref)
    /\ lastUpd' = UpdatedLastUpd(c, ts)

\* --------------------------------------------------------------- Processor
\* worker backend.py 120-135: the worker reads the clock after it entered
\* update_job_status_on_db and before its UPDATE takes effect (the UPDATE
\* waits for a row lock another transaction holds), so the time stamp it
\* writes is any clock value since it reached the call.
TimeStamps(p) == since[p] .. clock

\* worker.py 116-163: the except clause of process_job's main try that takes
\* an exception, as the position at which the worker continues.
process_job_handler(exc) ==
    CASE exc = "AWSTransient" -> "revert"
      [] exc = "AWSPermanent" -> "fail_write"
      [] exc \in {"DBError", "RedisErrorBase"} -> "push"
      [] OTHER -> "revert"

\* worker.py 211-229: what run_worker does with an exception that leaves
\* process_job or the pop: sleep and go round the loop, go round the loop, or
\* sys.exit(1).
run_worker_handler(exc) ==
    CASE exc = "RedisErrorBase" -> "pop"
      [] exc = "JSONDecodeError" -> "pop"
      [] OTHER -> "exited"

\* worker.py 82-87: the KeyError handler logs with extra=log_extra, which the
\* failed try never bound: UnboundLocalError leaves process_job.
MalformedPayloadRaises == "UnboundLocalError"

\* worker backend.py 281-286: a failed LPUSH is raised as the package's own
\* RedisError (errors.RedisError), not redis.exceptions.ConnectionError.
PushFaultRaises == "RedisError"

\* worker.py 174-191: the startup health check: ping, then
\* "with db_pool.getconn() as conn: pass", then STS.  The with block of a
\* psycopg2 connection ends the transaction; it neither closes the connection
\* nor calls putconn, so the connection stays checked out.  A failing check
\* ends in sys.exit(1).
Startup(p) ==
    /\ ppc[p] = "start"
    /\ since' = [since EXCEPT ![p] = clock]
    /\ \/ /\ checkedOut' = [checkedOut EXCEPT ![p] = @ + 1]
          /\ ppc' = [ppc EXCEPT ![p] = "pop"]
          /\ UNCHANGED <<attFailed, events>>
       \/ /\ CanFault
          /\ events' = events + 1
          /\ attFailed' = [attFailed EXCEPT ![p] = "startup"]
          /\ ppc' = [ppc EXCEPT ![p] = "exited"]
          /\ UNCHANGED checkedOut
    /\ UNCHANGED <<svars, queue, cache, ivars, held, attOutcome, attPending, attPush,
                   attRaised, firstPops, lookup,
                   target, otherQueue, clock, recv, succeeded>>

\* Mutant: the payload that is not JSON is not told apart from the payload
\* without correlation_id.
PayloadRaises_undistinguished(m) ==
    IF m \in Corr THEN "none" ELSE MalformedPayloadRaises

\* worker.py 200 and 76-87: json.loads of the popped element raises
\* JSONDecodeError for text that is not JSON; process_job's KeyError handler
\* raises MalformedPayloadRaises for a JSON object without correlation_id.
PayloadRaises(m) ==
    CASE m = NotJson -> "JSONDecodeError"
      [] m = NoCorr -> MalformedPayloadRaises
      [] OTHER -> "none"

FirstDelivery(log, m) ==
    IF m \notin Corr \/ \E i \in 1 .. Len(log) : log[i] = m THEN log ELSE Append(log, m)

\* worker.py 197-210 with backend.py 254-262 and worker.py 76-87: BRPOP, then
\* the payload's correlation_id.
Pop(p) ==
    /\ ppc[p] = "pop"
    /\ since' = [since EXCEPT ![p] = clock]
    /\ \/ /\ queue # <<>>
          /\ queue' = RPopRest(queue)
          /\ held' = [held EXCEPT ![p] = RPopped(queue)]
          /\ firstPops' = FirstDelivery(firstPops, RPopped(queue))
          /\ attFailed' = [attFailed EXCEPT ![p] = "none"]
          /\ attRaised' = [attRaised EXCEPT ![p] = PayloadRaises(RPopped(queue))]
          /\ ppc' = [ppc EXCEPT ![p] =
                IF PayloadRaises(RPopped(queue)) = "none"
                THEN "validate"
                ELSE run_worker_handler(PayloadRaises(RPopped(queue)))]
          /\ UNCHANGED events
       \/ /\ CanFault
          /\ events' = events + 1
          /\ ppc' = [ppc EXCEPT ![p] = run_worker_handler(BackendFaultRaises)]
          /\ attFailed' = [attFailed EXCEPT ![p] = "pop"]
          /\ attRaised' = [attRaised EXCEPT ![p] = BackendFaultRaises]
          /\ held' = [held EXCEPT ![p] = NoCorr]
          /\ UNCHANGED <<queue, firstPops>>
    /\ attOutcome' = [attOutcome EXCEPT ![p] = "none"]
    /\ attPending' = [attPending EXCEPT ![p] = 0]
    /\ attPush' = [attPush EXCEPT ![p] = 0]
    /\ UNCHANGED <<svars, cache, ivars, checkedOut, lookup,
                   target, otherQueue, clock, recv, succeeded>>

\* worker.py 89-92; backend.py 196-234 returns its connection in the finally
\* clause.
Validate(p) ==
    /\ ppc[p] = "validate"
    /\ since' = [since EXCEPT ![p] = clock]
    /\ \/ /\ ppc' = [ppc EXCEPT ![p] =
                IF validate_job_status_on_db(held[p]) THEN "lock" ELSE "pop"]
          /\ UNCHANGED <<attFailed, attRaised, events>>
       \/ /\ CanFault
          /\ events' = events + 1
          /\ attFailed' = [attFailed EXCEPT ![p] = "validate"]
          /\ attRaised' = [attRaised EXCEPT ![p] = BackendFaultRaises]
          /\ ppc' = [ppc EXCEPT ![p] = process_job_handler(BackendFaultRaises)]
    /\ UNCHANGED <<svars, queue, cache, ivars, held, attOutcome, attPending, attPush,
                   firstPops, checkedOut, lookup,
                   target, otherQueue, clock, recv, succeeded>>

\* Mutant: the IN_PROGRESS write is refused when the Job is no longer PENDING.
Lock_if_still_pending(p) ==
    /\ ppc[p] = "lock"
    /\ since' = [since EXCEPT ![p] = clock]
    /\ \/ /\ status[held[p]] = "PENDING"
          /\ \E ts \in TimeStamps(p) : update_job_status_on_db(held[p], "IN_PROGRESS", NoRef, ts)
          /\ ppc' = [ppc EXCEPT ![p] = "action"]
          /\ UNCHANGED <<attFailed, attRaised, events>>
       \/ /\ status[held[p]] # "PENDING"
          /\ ppc' = [ppc EXCEPT ![p] = "pop"]
          /\ UNCHANGED <<svars, attFailed, attRaised, events>>
       \/ /\ CanFault
          /\ events' = events + 1
          /\ attFailed' = [attFailed EXCEPT ![p] = "IN_PROGRESS"]
          /\ attRaised' = [attRaised EXCEPT ![p] = BackendFaultRaises]
          /\ ppc' = [ppc EXCEPT ![p] = process_job_handler(BackendFaultRaises)]
          /\ UNCHANGED svars
    /\ UNCHANGED <<queue, cache, ivars, held, attOutcome, attPending, attPush,
                   firstPops, checkedOut, lookup,
                   target, otherQueue, clock, recv, succeeded>>

\* Mutant: a failed IN_PROGRESS write is ignored and the action is invoked.
Lock_fault_ignored(p) ==
    /\ ppc[p] = "lock"
    /\ since' = [since EXCEPT ![p] = clock]
    /\ \/ /\ \E ts \in TimeStamps(p) : update_job_status_on_db(held[p], "IN_PROGRESS", NoRef, ts)
          /\ UNCHANGED <<attFailed, attRaised, events>>
       \/ /\ CanFault
          /\ events' = events + 1
          /\ attFailed' = [attFailed EXCEPT ![p] = "IN_PROGRESS"]
          /\ attRaised' = [attRaised EXCEPT ![p] = BackendFaultRaises]
          /\ UNCHANGED svars
    /\ ppc' = [ppc EXCEPT ![p] = "action"]
    /\ UNCHANGED <<queue, cache, ivars, held, attOutcome, attPending, attPush,
                   firstPops, checkedOut, lookup,
                   target, otherQueue, clock, recv, succeeded>>

\* worker.py 95-100
Lock(p) ==
    /\ ppc[p] = "lock"
    /\ since' = [since EXCEPT ![p] = clock]
    /\ \/ /\ \E ts \in TimeStamps(p) : update_job_status_on_db(held[p], "IN_PROGRESS", NoRef, ts)
          /\ ppc' = [ppc EXCEPT ![p] = "action"]
          /\ UNCHANGED <<attFailed, attRaised, events>>
       \/ /\ CanFault
          /\ events' = events + 1
          /\ attFailed' = [attFailed EXCEPT ![p] = "IN_PROGRESS"]
          /\ attRaised' = [attRaised EXCEPT ![p] = BackendFaultRaises]
          /\ ppc' = [ppc EXCEPT ![p] = process_job_handler(BackendFaultRaises)]
          /\ UNCHANGED svars
    /\ UNCHANGED <<queue, cache, ivars, held, attOutcome, attPending, attPush,
                   firstPops, checkedOut, lookup,
                   target, otherQueue, clock, recv, succeeded>>

\* worker.py 103-104: process_iam_action returns a result, or raises
\* AWSWorkerError (is_transient or not), or raises something else.
Action(p) ==
    /\ ppc[p] = "action"
    /\ since' = [since EXCEPT ![p] = clock]
    /\ \/ /\ attOutcome' = [attOutcome EXCEPT ![p] = "success"]
          /\ succeeded' = succeeded \cup {held[p]}
          /\ ppc' = [ppc EXCEPT ![p] = "success_write"]
          /\ UNCHANGED events
       \/ /\ attOutcome' = [attOutcome EXCEPT ![p] = "permanent"]
          /\ ppc' = [ppc EXCEPT ![p] = process_job_handler("AWSPermanent")]
          /\ UNCHANGED <<succeeded, events>>
       \/ /\ events < MaxEvents
          /\ events' = events + 1
          /\ attOutcome' = [attOutcome EXCEPT ![p] = "transient"]
          /\ ppc' = [ppc EXCEPT ![p] = process_job_handler("AWSTransient")]
          /\ UNCHANGED succeeded
       \/ /\ events < MaxEvents
          /\ events' = events + 1
          /\ attOutcome' = [attOutcome EXCEPT ![p] = "unexpected"]
          /\ ppc' = [ppc EXCEPT ![p] = process_job_handler("Exception")]
          /\ UNCHANGED succeeded
    /\ UNCHANGED <<svars, queue, cache, ivars, held, attPending, attPush, attFailed,
                   attRaised, firstPops, checkedOut, lookup,
                   target, otherQueue, clock, recv>>

\* worker.py 107-113; aws_request_id defaults to "not-defined", never empty.
SuccessWrite(p) ==
    /\ ppc[p] = "success_write"
    /\ since' = [since EXCEPT ![p] = clock]
    /\ \/ /\ \E ts \in TimeStamps(p) : update_job_status_on_db(held[p], "SUCCESS", "ref", ts)
          /\ ppc' = [ppc EXCEPT ![p] = "pop"]
          /\ UNCHANGED <<attFailed, attRaised, events>>
       \/ /\ CanFault
          /\ events' = events + 1
          /\ attFailed' = [attFailed EXCEPT ![p] = "SUCCESS"]
          /\ attRaised' = [attRaised EXCEPT ![p] = BackendFaultRaises]
          /\ ppc' = [ppc EXCEPT ![p] = process_job_handler(BackendFaultRaises)]
          /\ UNCHANGED svars
    /\ UNCHANGED <<queue, cache, ivars, held, attOutcome, attPending, attPush,
                   firstPops, checkedOut, lookup,
                   target, otherQueue, clock, recv, succeeded>>

\* worker.py 137-141: inside the AWSWorkerError handler, so an exception here
\* leaves process_job.
FailWrite(p) ==
    /\ ppc[p] = "fail_write"
    /\ since' = [since EXCEPT ![p] = clock]
    /\ \/ /\ \E ts \in TimeStamps(p) : update_job_status_on_db(held[p], "FAILED", NoRef, ts)
          /\ ppc' = [ppc EXCEPT ![p] = "pop"]
          /\ UNCHANGED <<attFailed, attRaised, events>>
       \/ /\ CanFault
          /\ events' = events + 1
          /\ attFailed' = [attFailed EXCEPT ![p] = "FAILED"]
          /\ attRaised' = [attRaised EXCEPT ![p] = BackendFaultRaises]
          /\ ppc' = [ppc EXCEPT ![p] = run_worker_handler(BackendFaultRaises)]
          /\ UNCHANGED svars
    /\ UNCHANGED <<queue, cache, ivars, held, attOutcome, attPending, attPush,
                   firstPops, checkedOut, lookup,
                   target, otherQueue, clock, recv, succeeded>>

\* worker.py 125-129 and 158-162: inside an except clause, so an exception
\* here leaves process_job before the push that follows.
Revert(p) ==
    /\ ppc[p] = "revert"
    /\ since' = [since EXCEPT ![p] = clock]
    /\ \/ /\ \E ts \in TimeStamps(p) : update_job_status_on_db(held[p], "PENDING", NoRef, ts)
          /\ attPending' = [attPending EXCEPT ![p] = @ + 1]
          /\ ppc' = [ppc EXCEPT ![p] = "push"]
          /\ UNCHANGED <<attFailed, attRaised, events>>
       \/ /\ CanFault
          /\ events' = events + 1
          /\ attFailed' = [attFailed EXCEPT ![p] = "PENDING"]
          /\ attRaised' = [attRaised EXCEPT ![p] = BackendFaultRaises]
          /\ ppc' = [ppc EXCEPT ![p] = run_worker_handler(BackendFaultRaises)]
          /\ UNCHANGED <<svars, attPending>>
    /\ UNCHANGED <<queue, cache, ivars, held, attOutcome, attPush,
                   firstPops, checkedOut, lookup,
                   target, otherQueue, clock, recv, succeeded>>

\* Mutant: the payload is put back twice.
push_job_to_redis_queue_twice(q, m) == LPush(LPush(q, m), m)

\* Mutant: the payload is not put back.
push_job_to_redis_queue_dropped(q, m) == q

\* worker backend.py 276-280: LPUSH of the payload onto the worker's queue.
push_job_to_redis_queue(q, m) == LPush(q, m)

\* worker.py 130, 150, 163
Push(p) ==
    /\ ppc[p] = "push"
    /\ since' = [since EXCEPT ![p] = clock]
    /\ \/ /\ queue' = push_job_to_redis_queue(queue, held[p])
          /\ attPush' = [attPush EXCEPT ![p] = @ + 1]
          /\ ppc' = [ppc EXCEPT ![p] = "pop"]
          /\ UNCHANGED <<attFailed, attRaised, events>>
       \/ /\ CanFault
          /\ events' = events + 1
          /\ attFailed' = [attFailed EXCEPT ![p] = "push"]
          /\ attRaised' = [attRaised EXCEPT ![p] = PushFaultRaises]
          /\ ppc' = [ppc EXCEPT ![p] = run_worker_handler(PushFaultRaises)]
          /\ UNCHANGED <<queue, attPush>>
    /\ UNCHANGED <<svars, cache, ivars, held, attOutcome, attPending,
                   firstPops, checkedOut, lookup,
                   target, otherQueue, clock, recv, succeeded>>

run_worker(p) ==
    \/ Startup(p)
    \/ Pop(p)
    \/ Validate(p)
    \/ Lock(p)
    \/ Action(p)
    \/ SuccessWrite(p)
    \/ FailWrite(p)
    \/ Revert(p)
    \/ Push(p)

\* ------------------------------------------------------------ status lookup
\* api backend.py 27-39: the columns of a REQUESTS row, the keys of the
\* RealDictCursor row (taken in the spelling the code indexes them with).
RowKeys ==
    {"CLIENT_REQ_ID", "CORRELATION_ID", "ACCOUNT_ID", "PRINCIPAL", "ROLE",
     "ACTION", "STATUS", "CLOUD_PROVIDER", "REQUESTED_TIME_STAMP",
     "LAST_UPDATED_TIME_STAMP"}

\* api backend.py 54-58: there is no comma after 'STATUS', so the two adjacent
\* literals 'STATUS' 'REQUSTED_TIME_STAMP' are one list element.
ResponseKeys ==
    {"CLIENT_REQ_ID", "CORRELATION_ID", "STATUSREQUSTED_TIME_STAMP",
     "LAST_UPDATED_TIME_STAMP"}

\* api backend.py 70-73: the keys of the JSON document kept in the cache.
CacheKeys == {"correlation_id", "status"}

NoLookup ==
    [id |-> NoCorr, code |-> 0, keys |-> {}, status |-> "none", via |-> "none",
     row |-> "NONE", entry |-> "none", cacheUp |-> TRUE]

\* api backend.py 157-194: what get_request_by_id returns or raises, given the
\* cache entry and committed row it finds and which of its GET, SELECT and SET
\* calls succeed.
get_request_by_id(entry, row, getOk, dbOk) ==
    IF getOk /\ entry # "none"
    THEN [raises |-> "none", keys |-> CacheKeys, status |-> entry, via |-> "cache"]
    ELSE IF ~dbOk
    THEN [raises |-> "DBError", keys |-> {}, status |-> "none", via |-> "storedown"]
    ELSE IF row = "NONE"
    THEN [raises |-> "DBError", keys |-> {}, status |-> "none", via |-> "notfound"]
    ELSE IF ResponseKeys \subseteq RowKeys
    THEN [raises |-> "none", keys |-> ResponseKeys, status |-> row, via |-> "store"]
    ELSE [raises |-> "KeyError", keys |-> {}, status |-> "none", via |-> "store"]

\* source/app/routes.py 226-237 with errors.py 49-57, 71-79: the HTTP status
\* that get_request_status answers with.
get_request_status(result) ==
    CASE result.raises \in {"DBError", "RedisError"} -> 503
      [] result.raises # "none" -> 500
      [] result.keys = {} -> 404
      [] OTHER -> 200

\* GET /api/v1/requests/<correlation_id>.  routes.py 215 takes a connection
\* from the pool first; PoolError is not caught and is answered 500.  The SET
\* of step 3 (backend.py 185-191) runs before the response is built, and its
\* error is swallowed.
GetStatus(c) ==
    /\ \/ /\ PoolExhausted
          /\ lookup' = [id |-> c, code |-> 500, keys |-> {}, status |-> "none",
                        via |-> "pool", row |-> status[c], entry |-> cache[c],
                        cacheUp |-> TRUE]
          /\ UNCHANGED cache
       \/ /\ ~PoolExhausted
          /\ \E getOk, dbOk, setOk \in BOOLEAN :
                LET result == get_request_by_id(cache[c], status[c], getOk, dbOk) IN
                /\ lookup' = [id |-> c,
                              code |-> get_request_status(result),
                              keys |-> result.keys,
                              status |-> result.status,
                              via |-> result.via,
                              row |-> status[c],
                              entry |-> cache[c],
                              cacheUp |-> getOk \/ (result.via = "store" /\ setOk)]
                /\ cache' = IF result.via = "store" /\ setOk
                            THEN [cache EXCEPT ![c] = status[c]]
                            ELSE cache
    /\ UNCHANGED <<svars, queue, ivars, pvars, nvars, events>>

\* api backend.py 61, 74-78: the entry is written with ex=_REDIS_CACHE_TTL and
\* disappears when the TTL has run out.
CacheExpire(c) ==
    /\ cache[c] # "none"
    /\ cache' = [cache EXCEPT ![c] = "none"]
    /\ UNCHANGED <<svars, queue, ivars, pvars, lookup, nvars, events>>

\* ------------------------------------------------------------- environment
\* At-least-once delivery: a queued payload is delivered a second time.
DuplicateDelivery ==
    /\ events < MaxEvents
    /\ \E i \in 1 .. Len(queue) :
          /\ queue[i] \in Corr
          /\ queue' = LPush(queue, queue[i])
    /\ events' = events + 1
    /\ UNCHANGED <<svars, cache, ivars, pvars, lookup, nvars>>

\* A payload that is a JSON object without correlation_id arrives on the list.
MalformedDelivery ==
    /\ events < MaxEvents
    /\ queue' = LPush(queue, NoCorr)
    /\ events' = events + 1
    /\ UNCHANGED <<svars, cache, ivars, pvars, lookup, nvars>>

\* Text that is not JSON arrives on the list.
UndecodableDelivery ==
    /\ events < MaxEvents
    /\ queue' = LPush(queue, NotJson)
    /\ events' = events + 1
    /\ UNCHANGED <<svars, cache, ivars, pvars, lookup, nvars>>

\* The wall clock advances.
Tick ==
    /\ clock < MaxClock
    /\ clock' = clock + 1
    /\ UNCHANGED <<svars, queue, cache, ivars, pvars, lookup, target, otherQueue,
                   recv, since, succeeded, events>>

\* The worker process is terminated from outside (no cooperative
\* cancellation exists); nothing it holds in memory survives.
Terminate(p) ==
    /\ ppc[p] \notin {"start", "exited", "killed"}
    /\ ppc' = [ppc EXCEPT ![p] = "killed"]
    /\ UNCHANGED <<svars, queue, cache, ivars, held, attOutcome, attPending, attPush,
                   attFailed, attRaised, firstPops, checkedOut, lookup, nvars, events>>

\* --------------------------------------------------------------- the system
InitState ==
    /\ status = [c \in Corr |-> "NONE"]
    /\ audit = [c \in Corr |-> <<>>]
    /\ refs = [c \in Corr |-> <<>>]
    /\ queue = <<>>
    /\ cache = [c \in Corr |-> "none"]
    /\ ipc = [c \in Corr |-> "start"]
    /\ txn = [c \in Corr |-> "none"]
    /\ resp = [c \in Corr |-> 0]
    /\ failedAt = [c \in Corr |-> "none"]
    /\ accepted = [c \in Corr |-> FALSE]
    /\ arrival = <<>>
    /\ ppc = [p \in Procs |-> "start"]
    /\ held = [p \in Procs |-> NoCorr]
    /\ attOutcome = [p \in Procs |-> "none"]
    /\ attPending = [p \in Procs |-> 0]
    /\ attPush = [p \in Procs |-> 0]
    /\ attFailed = [p \in Procs |-> "none"]
    /\ attRaised = [p \in Procs |-> "none"]
    /\ firstPops = <<>>
    /\ checkedOut = [p \in Procs |-> 0]
    /\ lookup = NoLookup
    /\ otherQueue = <<>>
    /\ clock = 0
    /\ recv = [c \in Corr |-> 0]
    /\ lastUpd = [c \in Corr |-> 0]
    /\ since = [p \in Procs |-> 0]
    /\ succeeded = {}
    /\ events = 0

\* Every request is for the provider whose worker is modelled.
Init ==
    /\ target = [c \in Corr |-> "aws"]
    /\ InitState

\* Requests for either provider.
InitProviders ==
    /\ target \in [Corr -> Providers]
    /\ InitState

Next ==
    \/ \E c \in Corr : create_request(c)
    \/ \E p \in Procs : run_worker(p)
    \/ DuplicateDelivery
    \/ MalformedDelivery

Spec == Init /\ [][Next]_vars

\* One worker instance and no duplicate delivery.
NextSolo ==
    \/ \E c \in Corr : create_request(c)
    \/ run_worker(1)
    \/ MalformedDelivery

SpecSolo == Init /\ [][NextSolo]_vars

\* One CreateJob call, every worker instance, duplicate deliveries.
NextOneJob ==
    \/ create_request(1)
    \/ \E p \in Procs : run_worker(p)
    \/ DuplicateDelivery
    \/ MalformedDelivery

SpecOneJob == Init /\ [][NextOneJob]_vars

\* One CreateJob call, one worker instance and status lookups for every
\* correlation_id, known or not.
NextStatus ==
    \/ create_request(1)
    \/ run_worker(1)
    \/ \E c \in Corr : GetStatus(c)
    \/ \E c \in Corr : CacheExpire(c)

SpecStatus == Init /\ [][NextStatus]_vars

\* One CreateJob call, every worker instance, duplicate deliveries and
\* termination of workers from outside.
NextCrash ==
    \/ NextOneJob
    \/ \E p \in Procs : Terminate(p)

SpecCrash == Init /\ [][NextCrash]_vars

\* CreateJob calls for either provider and one worker instance.
NextProviders ==
    \/ \E c \in Corr : create_request(c)
    \/ run_worker(1)

SpecProviders == InitProviders /\ [][NextProviders]_vars

\* One CreateJob call, every worker instance, duplicate deliveries and a
\* clock that advances between any two steps.
NextClock ==
    \/ create_request(1)
    \/ \E p \in Procs : run_worker(p)
    \/ DuplicateDelivery
    \/ Tick

SpecClock == Init /\ [][NextClock]_vars

\* One CreateJob call, one worker instance and payloads that are not JSON.
NextDecode ==
    \/ create_request(1)
    \/ run_worker(1)
    \/ UndecodableDelivery

SpecDecode == Init /\ [][NextDecode]_vars

\* One CreateJob call and one worker instance whose loop keeps running:
\* run_worker is a "while True" around a blocking pop, so a step that is
\* possible without a new fault is eventually taken.  Faults stay possible,
\* they are never forced.
NextLive ==
    \/ create_request(1)
    \/ run_worker(1)

SpecLive == Init /\ [][NextLive]_vars /\ WF_vars(run_worker(1) /\ events' = events)

\* ------------------------------------------------------------------ claims
Holds(c) == \E p \in Procs : ppc[p] \notin {"pop", "exited"} /\ held[p] = c
Queued(c) == \E i \in 1 .. Len(queue) : queue[i] = c
AttemptOver(p) == ppc[p] \in {"pop", "exited"}
Returned(c) == resp[c] # 0

\* C1: once a CreateJob call has returned (accepted, or failed at the Job
\* insert, the audit insert, the queue push or the Store commit), either a
\* committed Job row, a committed AuditRecord and an accepted QueueMessage all
\* exist for its correlation_id, or none of the three does.
C1_CreateJobAllOrNothing ==
    \A c \in Corr :
        Returned(c) =>
            \/ status[c] # "NONE" /\ Len(audit[c]) >= 1 /\ accepted[c]
            \/ status[c] = "NONE" /\ audit[c] = <<>> /\ ~accepted[c]

\* C2: once a Job's status is SUCCESS or FAILED, no step writes another status
\* or audit record for it and no worker pushes a message for it back onto the
\* queue.
C2_TerminalIsAbsorbing ==
    [][\A c \in Corr :
          status[c] \in Terminal =>
              /\ status'[c] = status[c]
              /\ audit'[c] = audit[c]
              /\ \A p \in Procs :
                    ~(/\ ppc[p] = "push" /\ held[p] = c
                      /\ attPush'[p] = attPush[p] + 1)]_vars

\* C3: when a worker re-pushes a message while messages of other jobs are
\* waiting in the queue, the re-pushed message is the one the next BRPOP
\* returns.
C3_RetryJumpsTheQueue ==
    [][\A p \in Procs :
          (/\ ppc[p] = "push"
           /\ attPush'[p] = attPush[p] + 1
           /\ \E i \in 1 .. Len(queue) : queue[i] # held[p])
          => RPopped(queue') = held[p]]_vars

\* C4: when a worker dequeues a payload without correlation_id, nothing is
\* written to the Store, nothing is pushed, and no worker leaves its loop: the
\* worker is back at the blocking pop.
C4_MalformedDroppedLoopContinues ==
    [][(/\ queue # <<>>
        /\ RPopped(queue) = NoCorr
        /\ queue' = RPopRest(queue))
       => /\ \A p \in Procs : ppc'[p] = ppc[p]
          /\ UNCHANGED svars]_vars

C6_TransientOnePendingOnePush ==
    \A p \in Procs :
        (attOutcome[p] = "transient" /\ AttemptOver(p))
        => attPending[p] = 1 /\ attPush[p] = 1

\* C7: when the Store write that reverts a Job to PENDING fails, the attempt
\* still ends with the original message pushed back onto the queue.
C7_RevertFaultStillRequeues ==
    \A p \in Procs :
        (attFailed[p] = "PENDING" /\ AttemptOver(p)) => attPush[p] = 1

\* C8: when the Store write of IN_PROGRESS, SUCCESS or FAILED fails, the
\* attempt ends with the Job transitioned to PENDING and the message
\* re-pushed.
C8_FinalizeFaultRevertsAndRequeues ==
    \A p \in Procs :
        (attFailed[p] \in {"IN_PROGRESS", "SUCCESS", "FAILED"} /\ AttemptOver(p))
        => attPending[p] = 1 /\ attPush[p] = 1

\* C9: every committed Job row belongs to a CreateJob call whose LPUSH was
\* accepted by the queue before the commit.
C9_CommitOnlyAfterPush ==
    \A c \in Corr : (status[c] # "NONE" \/ txn[c] = "committed") => accepted[c]

\* A CreateJob call has committed its Job row.
C9_Witness == \E c \in Corr : status[c] = "PENDING" /\ txn[c] = "committed" /\ resp[c] = 202

PublicField(k) ==
    CASE k \in {"CLIENT_REQ_ID", "client_request_id"} -> "client_request_id"
      [] k \in {"CORRELATION_ID", "correlation_id"} -> "correlation_id"
      [] k \in {"STATUS", "status"} -> "status"
      [] k = "REQUESTED_TIME_STAMP" -> "requested_at"
      [] k = "LAST_UPDATED_TIME_STAMP" -> "last_updated_at"
      [] OTHER -> k

PublicFields ==
    {"client_request_id", "correlation_id", "status", "requested_at",
     "last_updated_at"}

Looked == lookup.id \in Corr

\* C11: a status lookup for a committed Job during which every cache call
\* fails while the Store answers is answered 200 with the Job's committed
\* status.
C11_CacheDownStoreAnswers ==
    (Looked /\ ~lookup.cacheUp /\ lookup.row # "NONE" /\ lookup.via # "storedown")
    => lookup.code = 200 /\ lookup.status = lookup.row

\* C12: a status lookup for an accepted Job whose committed status is SUCCESS
\* and whose cache entry has not expired is answered 200 with status SUCCESS.
C12_LookupAfterSuccess ==
    (Looked /\ lookup.row = "SUCCESS" /\ lookup.via = "cache")
    => lookup.code = 200 /\ lookup.status = "SUCCESS"

\* C13: a status lookup for a correlation_id with no Job row and no cache
\* entry, made while the Store answers, is answered with the not-found status
\* 404 and not with the 503 of an unreachable Store.
C13_UnknownIdIsNotFound ==
    (Looked /\ lookup.via = "notfound" /\ lookup.entry = "none")
    => lookup.code = 404

\* C14: a status lookup for a committed Job that is served from the cache or
\* from the Store is answered 200 with exactly the five public fields.
C14_PublicFieldsEitherWay ==
    (Looked /\ lookup.row # "NONE" /\ lookup.via \in {"cache", "store"})
    => /\ lookup.code = 200
       /\ {PublicField(k) : k \in lookup.keys} = PublicFields

\* C15: the step that follows a PermanentFailure of the action sets the Job to
\* FAILED, appends exactly one FAILED audit record, pushes nothing and returns
\* the worker to the pop; and a Job that is FAILED stays FAILED.
C15_PermanentFailureIsFinal ==
    [][/\ \A p \in Procs :
             (ppc[p] = "fail_write" /\ ppc'[p] # "fail_write")
             => /\ status'[held[p]] = "FAILED"
                /\ audit'[held[p]] = Append(audit[held[p]], "FAILED")
                /\ queue' = queue
                /\ ppc'[p] = "pop"
       /\ \A c \in Corr : status[c] = "FAILED" => status'[c] = "FAILED"]_vars

HappyAudit == <<"PENDING", "IN_PROGRESS", "SUCCESS">>

\* C16: with one worker and no fault or other perturbation so far, an accepted
\* Job that no worker has locked yet is PENDING with the single audit record
\* PENDING, and once the worker has finished an attempt whose action succeeded
\* the Job is SUCCESS, its audit log is PENDING, IN_PROGRESS, SUCCESS, it has
\* exactly one reference record, its message is no longer queued and the
\* queue is empty unless another CreateJob call has pushed.
C16_HappyPath ==
    events = 0 =>
        \A c \in Corr :
            /\ (resp[c] = 202 /\ Len(audit[c]) = 1)
               => status[c] = "PENDING" /\ audit[c] = <<"PENDING">>
            /\ \A p \in Procs :
                  (ppc[p] = "pop" /\ held[p] = c /\ attOutcome[p] = "success")
                  => /\ status[c] = "SUCCESS"
                     /\ audit[c] = HappyAudit
                     /\ refs[c] = <<"ref">>
                     /\ ~Queued(c)
                     /\ (\A d \in Corr \ {c} : ~accepted[d]) => queue = <<>>

\* The single worker has driven an accepted Job to SUCCESS without any fault.
C16_Witness ==
    /\ events = 0
    /\ \E c \in Corr :
          /\ resp[c] = 202
          /\ ppc[1] = "pop" /\ held[1] = c /\ attOutcome[1] = "success"
          /\ status[c] = "SUCCESS"
          /\ queue = <<>>

AllowedTransitions ==
    {<<"PENDING", "IN_PROGRESS">>, <<"IN_PROGRESS", "SUCCESS">>,
     <<"IN_PROGRESS", "FAILED">>, <<"IN_PROGRESS", "PENDING">>}

\* C17: every status write committed to an existing Job row takes the row
\* from an old status to a new one that form one of the four defined
\* transitions.
C17_OnlyDefinedTransitions ==
    [][\A c \in Corr :
          (status[c] # "NONE" /\ audit'[c] # audit[c])
          => <<status[c], status'[c]>> \in AllowedTransitions]_vars

\* C18: a worker whose blocking pop failed on a lost Redis connection has not
\* exited: it is back at the blocking pop.
C18_PopFaultRetries ==
    \A p \in Procs : attFailed[p] = "pop" => ppc[p] = "pop"

\* C19: an attempt in which the action raised an unclassified error ends with
\* exactly one committed PENDING transition and exactly one re-push, and never
\* writes FAILED.
C19_UnexpectedHandledAsTransient ==
    \A p \in Procs :
        (attOutcome[p] = "unexpected" /\ AttemptOver(p))
        => attPending[p] = 1 /\ attPush[p] = 1 /\ attFailed[p] # "FAILED"

SuccessRecords(c) == Cardinality({i \in 1 .. Len(audit[c]) : audit[c][i] = "SUCCESS"})

\* C20: the reference records of a Job are as many as its committed SUCCESS
\* transitions, and there is at most one.
C20_OneReferencePerSuccess ==
    \A c \in Corr :
        /\ Len(refs[c]) = SuccessRecords(c)
        /\ Len(refs[c]) <= 1

\* The status update_job_status_on_db is called with at each position.
WrittenAt(pc) ==
    CASE pc = "lock" -> "IN_PROGRESS"
      [] pc = "success_write" -> "SUCCESS"
      [] pc = "fail_write" -> "FAILED"
      [] pc = "revert" -> "PENDING"

\* C21: a call of update_job_status_on_db either returns normally with the
\* status of the Job row, one new audit record and (for SUCCESS) one reference
\* record committed together, or fails with nothing written and DBError
\* raised to the caller.
C21_TransitionAllOrNothing ==
    [][\A p \in Procs :
          (ppc[p] \in {"lock", "success_write", "fail_write", "revert"} /\ ppc'[p] # ppc[p])
          => LET c == held[p]
                 s == WrittenAt(ppc[p])
             IN \/ /\ attFailed'[p] = attFailed[p]
                   /\ status'[c] = (IF status[c] = "NONE" THEN "NONE" ELSE s)
                   /\ audit'[c] = Append(audit[c], s)
                   /\ refs'[c] = (IF s = "SUCCESS" THEN Append(refs[c], "ref") ELSE refs[c])
                \/ /\ attFailed'[p] = s
                   /\ UNCHANGED svars
                   /\ attRaised'[p] = "DBError"]_vars

\* C22: a CreateJob call whose cache SET failed goes on to the commit with its
\* transaction open and with Store and queue untouched by the failure, and
\* its commit, unless the commit itself fails, makes the Job PENDING and
\* answers 202 without touching the queue.
C22_CacheFailureIsHarmless ==
    [][\A c \in Corr :
          /\ (ipc[c] = "pushed" /\ ipc'[c] # "pushed" /\ cache'[c] = "none")
             => /\ ipc'[c] = "cached"
                /\ txn'[c] = "open"
                /\ resp'[c] = 0
                /\ UNCHANGED <<svars, queue>>
          /\ (ipc[c] = "cached" /\ cache[c] = "none" /\ ipc'[c] = "done"
              /\ failedAt'[c] = "none")
             => /\ status'[c] = "PENDING"
                /\ resp'[c] = 202
                /\ queue' = queue]_vars

\* A CreateJob call was accepted although its cache SET had failed.
C22_Witness ==
    \E c \in Corr :
        /\ resp[c] = 202
        /\ status[c] # "NONE"
        /\ accepted[c]
        /\ cache[c] = "none"

Retried(p, c) ==
    /\ ppc[p] = "pop"
    /\ held[p] = c
    /\ attOutcome[p] = "transient"
    /\ attPush[p] = 1

Disturbed(p) == ppc[p] = "exited" \/ attFailed[p] # "none"

\* C23: with a worker whose loop keeps running, a Job whose attempt ended in
\* a TransientFailure with the message re-pushed is delivered again and
\* reaches the action, and an attempt whose action succeeded leads to status
\* SUCCESS, unless a Store or Queue call fails or the worker exits.
C23_RetryEventuallySucceeds ==
    \A p \in Procs : \A c \in Corr :
        /\ Retried(p, c) ~> ((ppc[p] = "action" /\ held[p] = c) \/ Disturbed(p))
        /\ (ppc[p] = "success_write" /\ held[p] = c)
              ~> (status[c] = "SUCCESS" \/ Disturbed(p))

\* A Job has reached SUCCESS on its second delivery after a transient failure.
C23_Witness ==
    \E c \in Corr :
        /\ status[c] = "SUCCESS"
        /\ audit[c] = <<"PENDING", "IN_PROGRESS", "PENDING", "IN_PROGRESS", "SUCCESS">>

\* C24: the step that writes IN_PROGRESS does not look at the status again: a
\* worker that has passed validate commits IN_PROGRESS and goes on to the
\* action whatever the Job's status has become in the meantime.
C24_LockDoesNotRecheck ==
    [][\A p \in Procs :
          (ppc[p] = "lock" /\ ppc'[p] # "lock" /\ attFailed'[p] = attFailed[p])
          => /\ ppc'[p] = "action"
             /\ audit'[held[p]] = Append(audit[held[p]], "IN_PROGRESS")]_vars

\* Two workers hold copies of the same message, both saw PENDING before either
\* wrote IN_PROGRESS, and both are about to invoke the action.
C24_Witness ==
    \E p, q \in Procs :
        /\ p # q
        /\ ppc[p] = "action" /\ ppc[q] = "action"
        /\ held[p] \in Corr /\ held[q] = held[p]
        /\ audit[held[p]] = <<"PENDING", "IN_PROGRESS", "IN_PROGRESS">>

\* C25: when the worker's last attempt ended in a TransientFailure with the
\* message re-pushed and another Job's message is waiting in the queue, the
\* next pop returns the retried message again.
C25_RetryStarvesWaitingMessage ==
    [][\A p \in Procs :
          (/\ ppc[p] = "pop"
           /\ attOutcome[p] = "transient"
           /\ attPush[p] = 1
           /\ Queued(held[p])
           /\ \E d \in Corr \ {held[p]} : Queued(d)
           /\ ppc'[p] = "validate")
          => held'[p] = held[p]]_vars

\* A Job that is IN_PROGRESS, whose message a worker that has terminated was
\* processing, and that no running worker is past the validate step for.
Orphaned(c) ==
    /\ status[c] = "IN_PROGRESS"
    /\ \E p \in Procs : ppc[p] \in {"exited", "killed"} /\ held[p] = c
    /\ \A q \in Procs :
          (held[q] = c /\ ppc[q] \notin {"pop", "exited", "killed"})
          => (ppc[q] = "validate" \/ attFailed[q] = "validate")

\* C26: a Job left IN_PROGRESS by a worker that exited stays IN_PROGRESS: no
\* step changes its status, also when its message is delivered again.
C26_OrphanStaysInProgress ==
    [][\A c \in Corr : Orphaned(c) => status'[c] = "IN_PROGRESS"]_vars

IsPrefix(a, b) == Len(a) <= Len(b) /\ SubSeq(b, 1, Len(a)) = a

\* C27: with one worker, the correlation_ids in the order of their first
\* delivery are a prefix of the correlation_ids in the order Intake pushed
\* them.
C27_FirstDeliveryIsFifo == IsPrefix(firstPops, arrival)

\* Two messages pushed by Intake have both been delivered.
C27_Witness == Len(arrival) >= 2 /\ firstPops = arrival

\* C28: a worker that is waiting at the blocking pop holds no connection of
\* its pool.
C28_IdleWorkerHoldsNoConnection ==
    \A p \in Procs : ppc[p] = "pop" => checkedOut[p] = 0

\* C29: no CreateJob call fails because the pool had no free connection.
C29_ExhaustedPoolBlocks ==
    \A c \in Corr : Returned(c) => failedAt[c] # "pool"

\* C30: a validate step that runs to completion sends the worker on to the
\* lock exactly when the Job row exists with status PENDING, and back to the
\* pop for an unknown correlation_id and for IN_PROGRESS, SUCCESS and FAILED;
\* no validate step changes anything in the Store.
C30_ValidateTrueIffPending ==
    [][\A p \in Procs :
          (ppc[p] = "validate" /\ ppc'[p] # "validate")
          => /\ UNCHANGED svars
             /\ attFailed'[p] = attFailed[p]
                => /\ status[held[p]] = "PENDING" => ppc'[p] = "lock"
                   /\ status[held[p]] \in {"NONE", "IN_PROGRESS", "SUCCESS", "FAILED"}
                      => ppc'[p] = "pop"]_vars

\* A worker has validated a PENDING Job and is about to lock it.
C30_Witness ==
    \E p \in Procs :
        /\ ppc[p] = "lock"
        /\ attFailed[p] = "none"
        /\ status[held[p]] = "PENDING"

\* The Redis list of a provider.
QueueOf(prov) == IF queue_name(prov) = REDIS_QUEUE_AWS THEN queue ELSE otherQueue
QueueOfNext(prov) == IF queue_name(prov) = REDIS_QUEUE_AWS THEN queue' ELSE otherQueue'

\* C31: the LPUSH of a CreateJob call puts the message at the head of the list
\* of the call's target provider and leaves the list of every other provider
\* unchanged, and a worker's re-push puts the message back at the head of the
\* list the worker pops from and leaves the other lists unchanged.
C31_QueueKeyedByProvider ==
    [][/\ \A c \in Corr :
             (ipc[c] = "audit" /\ ipc'[c] = "pushed")
             => \A prov \in Providers :
                   QueueOfNext(prov) = IF prov = target[c]
                                       THEN LPush(QueueOf(prov), c)
                                       ELSE QueueOf(prov)
       /\ \A p \in Procs :
             (ppc[p] = "push" /\ attPush'[p] = attPush[p] + 1)
             => /\ queue' = LPush(queue, held[p])
                /\ otherQueue' = otherQueue]_vars

\* A message for the other provider waits on that provider's list while the
\* worker has re-pushed the message of a Job onto its own list.
C31_Witness ==
    /\ otherQueue # <<>>
    /\ \E p \in Procs :
          /\ ppc[p] = "pop"
          /\ attPush[p] = 1
          /\ target[held[p]] = "aws"
          /\ Queued(held[p])

\* C32: the last update time stamp of a Job row starts as the received_at of
\* its CreateJob call, and no committed write makes it smaller.
C32_LastUpdatedNeverDecreases ==
    [][\A c \in Corr :
          /\ (status[c] = "NONE" /\ status'[c] # "NONE") => lastUpd'[c] = recv[c]
          /\ status[c] # "NONE" => lastUpd'[c] >= lastUpd[c]]_vars

\* A worker that is running holds the message of c.
HeldByRunning(c) ==
    \E p \in Procs :
        /\ ppc[p] \notin {"start", "pop", "exited", "killed"}
        /\ held[p] = c

\* C33: every committed Job that is PENDING has a message in the queue or in
\* the hands of a running worker.
C33_PendingJobHasMessage ==
    \A c \in Corr : status[c] = "PENDING" => (Queued(c) \/ HeldByRunning(c))

Last(seq) == seq[Len(seq)]

\* C34: the latest audit record of a Job carries the Job row's status, the row
\* is created together with exactly one audit record, and afterwards every
\* step adds one audit record when it commits a status write to the row and
\* none otherwise.
C34_AuditMatchesStatus ==
    [][\A c \in Corr :
          /\ status'[c] # "NONE"
             => /\ audit'[c] # <<>>
                /\ Last(audit'[c]) = status'[c]
          /\ (status[c] = "NONE" /\ status'[c] # "NONE") => Len(audit'[c]) = 1
          /\ status[c] # "NONE"
             => /\ Len(audit'[c]) \in {Len(audit[c]), Len(audit[c]) + 1}
                /\ status'[c] # status[c] => Len(audit'[c]) = Len(audit[c]) + 1]_vars

\* C35: a status lookup that is answered 200 was made for a correlation_id
\* that had a committed Job row.
C35_NoStatusWithoutRow ==
    (Looked /\ lookup.code = 200) => lookup.row # "NONE"

\* C36: process_iam_action is invoked only from the position that follows the
\* IN_PROGRESS write; a worker reaches that position only by committing
\* IN_PROGRESS for the Job it holds, and reaches the IN_PROGRESS write only
\* from a validate step that completed and found the Job PENDING.
C36_ActionOnlyAfterValidateAndLock ==
    [][\A p \in Procs :
          /\ (attOutcome'[p] # attOutcome[p] /\ attOutcome'[p] # "none")
             => ppc[p] = "action"
          /\ (ppc'[p] = "action" /\ ppc[p] # "action")
             => /\ ppc[p] = "lock"
                /\ attFailed'[p] = attFailed[p]
                /\ held'[p] = held[p]
                /\ status'[held[p]] = "IN_PROGRESS"
                /\ audit'[held[p]] = Append(audit[held[p]], "IN_PROGRESS")
          /\ (ppc'[p] = "lock" /\ ppc[p] # "lock")
             => /\ ppc[p] = "validate"
                /\ attFailed'[p] = attFailed[p]
                /\ held'[p] = held[p]
                /\ status[held[p]] = "PENDING"]_vars

\* A worker has invoked the action in an attempt with no failed call.
C36_Witness ==
    \E p \in Procs :
        /\ attOutcome[p] # "none"
        /\ attFailed[p] = "none"
        /\ held[p] \in Corr

\* C37: process_iam_action is not invoked for a Job for which an earlier
\* invocation returned a result.
C37_NoActionAfterSuccess ==
    [][\A p \in Procs :
          (ppc[p] = "action" /\ ppc'[p] # "action") => held[p] \notin succeeded]_vars

\* The messages of c: the copies in the queue q and the copies in the hands
\* of the workers that are running.
Copies(q, h, pc, c) ==
    Cardinality({i \in 1 .. Len(q) : q[i] = c})
    + Cardinality({p \in Procs : h[p] = c /\ pc[p] \notin {"start", "pop", "exited", "killed"}})

\* C38: no attempt pushes more than one message, and no step of a worker
\* makes the messages of a Job more than they were.
C38_WorkerNeverMultipliesMessages ==
    [][(ppc' # ppc)
       => /\ \A p \in Procs : attPush'[p] <= 1
          /\ \A c \in Corr :
                Copies(queue', held', ppc', c) <= Copies(queue, held, ppc, c)]_vars

\* A worker has re-pushed the message of a Job while a second copy of it
\* waits in the queue.
C38_Witness ==
    \E p \in Procs :
        /\ ppc[p] = "pop"
        /\ attPush[p] = 1
        /\ held[p] \in Corr
        /\ Copies(queue, held, ppc, held[p]) >= 2

====
